---------------------------- MODULE Spec2Model ----------------------------
(***************************************************************************)
(* A model of src/magnetobrem.py: the magnetobremsstrahlung emissivity     *)
(* j_mb and absorption a_mb of a tabulated particle distribution, one      *)
(* joblib task per frequency.                                              *)
(*                                                                         *)
(* Numbers.  The code computes in IEEE double precision.  The model keeps  *)
(* of a double its kind (finite, infinite, NaN), its sign and its decimal  *)
(* exponent e (the value 10^e): a floating-point format with no mantissa   *)
(* digits.  Products and quotients are exact in it, a sum is the operand   *)
(* of larger magnitude (absorption), two opposite numbers cancel to 0, and *)
(* exponents under/overflow as a double's do.  The thresholds of the code  *)
(* (1e-100, 1e-200, 0.5, c1, c2, c3) are compared exactly.  The slope q,   *)
(* which the code clamps to [-8, 8], is kept as an integer (rounded down), *)
(* or NaN or +-inf as the division of the two logarithms gives.            *)
(***************************************************************************)
EXTENDS Integers, Sequences, FiniteSets, TLC

\* ------------------------------------------------------------- bounds
MaxFreqs == 2       \* longest frequency array nu
MaxGrid == 3        \* longest distribution grid g, N
MaxDivmax == 2      \* largest divmax passed to the quadrature
MaxWorkers == 2     \* largest worker pool n_jobs=-2 resolves to
MaxCalls == 2       \* calls made one after the other on the same grids

\* ------------------------------------------------------------ doubles
Zero == [k |-> "fin", s |-> 0, e |-> 0]
NaN == [k |-> "nan", s |-> 0, e |-> 0]
Inf(s) == [k |-> "inf", s |-> s, e |-> 0]

\* A finite double of sign s and decimal exponent e: below 1e-323 it
\* underflows to 0, above 1e308 it overflows to infinity.
Fin(s, e) ==
    IF s = 0 \/ e < -323 THEN Zero
    ELSE IF e > 308 THEN Inf(s)
    ELSE [k |-> "fin", s |-> s, e |-> e]

P10(e) == Fin(1, e)
One == P10(0)

IsNaN(x) == x.k = "nan"

Neg(x) == [x EXCEPT !.s = -x.s]

Abs(x) == [x EXCEPT !.s = IF x.s = 0 THEN 0 ELSE 1]

Mul(x, y) ==
    IF IsNaN(x) \/ IsNaN(y) THEN NaN
    ELSE IF x.k = "inf" \/ y.k = "inf"
         THEN IF x.s = 0 \/ y.s = 0 THEN NaN ELSE Inf(x.s * y.s)
    ELSE Fin(x.s * y.s, x.e + y.e)

\* numpy division: x / 0 is +-inf (a RuntimeWarning, no exception), 0 / 0 NaN.
Div(x, y) ==
    IF IsNaN(x) \/ IsNaN(y) THEN NaN
    ELSE IF x.k = "inf"
         THEN IF y.k = "inf" THEN NaN
              ELSE Inf(IF y.s = 0 THEN x.s ELSE x.s * y.s)
    ELSE IF y.k = "inf" THEN Zero
    ELSE IF y.s = 0 THEN (IF x.s = 0 THEN NaN ELSE Inf(x.s))
    ELSE Fin(x.s * y.s, x.e - y.e)

Add(x, y) ==
    IF IsNaN(x) \/ IsNaN(y) THEN NaN
    ELSE IF x.k = "inf"
         THEN IF y.k = "inf" /\ y.s # x.s THEN NaN ELSE x
    ELSE IF y.k = "inf" THEN y
    ELSE IF x.s = 0 THEN y
    ELSE IF y.s = 0 THEN x
    ELSE IF x.e > y.e THEN x
    ELSE IF y.e > x.e THEN y
    ELSE IF x.s = y.s THEN x
    ELSE Zero

Sub(x, y) == Add(x, Neg(y))

\* The place of a non-NaN double on the number line.
Key(x) ==
    IF x.k = "inf" THEN x.s * 1000
    ELSE IF x.s = 0 THEN 0
    ELSE x.s * (x.e + 400)

\* Comparisons with NaN are false.
Lt(x, y) == ~IsNaN(x) /\ ~IsNaN(y) /\ Key(x) < Key(y)
Gt(x, y) == Lt(y, x)

\* An integer as a double: its sign and the decade of its magnitude.
FromInt(n) ==
    LET m == IF n < 0 THEN -n ELSE n
    IN  IF n = 0 THEN Zero
        ELSE Fin(IF n < 0 THEN -1 ELSE 1,
                 IF m < 10 THEN 0 ELSE IF m < 100 THEN 1 ELSE 2)

\* ------------------------------------------------------- the slope q
QFin(v) == [k |-> "fin", v |-> v]
QNaN == [k |-> "nan", v |-> 0]
QInf(s) == [k |-> "inf", v |-> s]

QGt(q, n) == q.k # "nan" /\ (IF q.k = "inf" THEN q.v > 0 ELSE q.v > n)
QLt(q, n) == q.k # "nan" /\ (IF q.k = "inf" THEN q.v < 0 ELSE q.v < n)

\* x ** q for a positive finite x; numpy gives 1.0 ** nan = 1.0.
Pow(x, q) ==
    IF x = One THEN One
    ELSE IF q.k = "nan" THEN NaN
    ELSE IF q.k = "inf" THEN (IF (q.v > 0) = (x.e > 0) THEN Inf(1) ELSE Zero)
    ELSE Fin(1, x.e * q.v)


QNeg(q) == IF q.k = "fin" THEN QFin(-q.v) ELSE IF q.k = "inf" THEN QInf(-q.v) ELSE QNaN

QPlus(q, n) == IF q.k = "fin" THEN QFin(q.v + n) ELSE q

\* -------------------------------------------------------------- state
VARIABLES
    mode,       \* the entry point called: "j_mb" or "a_mb"
    nu,         \* argument nu: the frequencies
    g,          \* argument g: the Lorentz-factor grid
    N,          \* argument N: the densities on the grid
    B,          \* argument B: the magnetic field
    Rsync,      \* argument Rsync: the kernel flag
    divmax,     \* argument divmax
    tol,        \* argument tol: the absolute tolerance
    rtol,       \* argument rtol: the relative tolerance
    workers,    \* the size n_jobs=-2 gives the worker pool
    pc,         \* "idle", "running" (inside Parallel) or "returned"
    ncalls,     \* calls entered so far
    perm,       \* the call's nu is the previous call's nu, permuted by perm
    prev,       \* the array the previous call returned
    st,         \* per task: "pending", "running" or "done"
    arg,        \* per task: the argument c it was started with
    kk,         \* per task: the loop index k of integrals
    sum,        \* per task: the local variable sum of integrals
    obs,        \* per task: what its last loop iteration did
    ret,        \* per task: the value integrals returned
    jnu,        \* the list Parallel hands back (jnu, anu)
    order,      \* the tasks in the order they completed in
    out         \* the array the call returned

\* A call of one of the kernel fits of class mbs on a scalar argument.
VARIABLES
    fn,         \* the method called: "RMAfit", "FDB08fit" or "RMA" ("none": not yet)
    fitX,       \* argument Xc
    fitG,       \* argument g (RMAfit, RMA), in decades: g = 10^fitG
    fitHit,     \* the forms np.piecewise evaluated, in the order of its lists
    fitOut      \* the form whose value the call returned

fitVars == <<fn, fitX, fitG, fitHit, fitOut>>

\* The arrays a caller hands to LightCurves and spectrum, and one call.
VARIABLES
    nus,        \* argument nus (times in spectrum): the axis of the table
    nu_in,      \* argument nu_in (t_in): the point asked for
    flux,       \* argument flux, the caller's array: one entry per axis point
    flux0,      \* flux as it was before the first call
    lcPc,       \* "idle", "returned", or "IndexError" when the call raised
    lcFn,       \* the method called last
    nu_pos,     \* nu_pos (t_pos) after the index adjustment
    lc,         \* the value the call returned (lc, spec, licur)
    lcPrev,     \* what the call before returned
    lcCalls     \* calls of LightCurves.pwl_interp so far

lcVars == <<nus, nu_in, flux, flux0, lcPc, lcFn, nu_pos, lc, lcPrev, lcCalls>>

\* The variables of a call of j_mb or a_mb.
mbVars ==
    <<mode, nu, g, N, B, Rsync, divmax, tol, rtol, workers, pc, ncalls, perm,
      prev, st, arg, kk, sum, obs, ret, jnu, order, out>>

vars == <<mbVars, fitVars, lcVars>>

\* No kernel fit has been called.
fitIdle ==
    /\ fn = "none"
    /\ fitX = <<>>
    /\ fitG = 0
    /\ fitHit = <<>>
    /\ fitOut = "none"

\* No table has been handed to LightCurves or spectrum.
lcIdle ==
    /\ nus = <<>>
    /\ nu_in = 0
    /\ flux = <<>>
    /\ flux0 = <<>>
    /\ lcPc = "idle"
    /\ lcFn = "none"
    /\ nu_pos = 0
    /\ lc = <<>>
    /\ lcPrev = <<>>
    /\ lcCalls = 0

\* ------------------------------------------- constants.py (not in src)
nuConst == P10(6)       \* C.nuConst = e / (2 pi m_e c) = 2.799e6
jmbConst == P10(-29)    \* C.jmbConst = 4.835e-29
ambConst == P10(-2)     \* C.ambConst = 2.654e-2

\* --------------------------------------------------------- the kernels
\* The kernel argument Xc = 2 c / (3 g**2) is (2/3) 10^k = 6.667 10^(k-1);
\* a threshold t is <<m, d>>, the number (m / 1000) 10^d with 1000 <= m < 10000.
XcMant == <<6667, -1>>
xg3Crit == <<5000, -1>>     \* 0.5
c1 == <<3218, -4>>          \* 3.218090050062573e-4
c2 == <<6505, -1>>          \* 0.650532122717873
c3 == <<1558, 1>>           \* 15.57990468980456

\* (2/3) 10^k < t, and (2/3) 10^k <= t.
XLt(k, t) == k + XcMant[2] < t[2] \/ (k + XcMant[2] = t[2] /\ XcMant[1] < t[1])
XLe(k, t) == k + XcMant[2] < t[2] \/ (k + XcMant[2] = t[2] /\ XcMant[1] <= t[1])

\* Rsync(Xc, asym_low=True) = 1.8084 Xc**(1/3):
\* log10 = 0.2573 + (k - 0.1761) / 3 = (k + 0.596) / 3.
mbsRsyncLow(x) == P10((1000 * x.e + 596) \div 3000)

\* Rsync(Xc, asym_high=True) = (pi/2) (1 - 11/(18 Xc)) exp(-Xc):
\* log10 = 0.196 - 0.4343 (2/3) 10^k; exp underflows to 0 from Xc = 6667 on.
\* theFit uses it for Xc >= c3 only, that is for k >= 2.
mbsRsyncHigh(x) ==
    IF x.e >= 4 THEN Zero
    ELSE P10((196 - 28953 * 10^(x.e - 2)) \div 1000)

\* The two polynomial fits of RMAfit at Xc = (2/3) 10^k:
\* A = 0.156, 0.328, 0.615 for k = -3, -2, -1; B = 0.573, 1.86e-3 for k = 0, 1.
fitA(x) == P10(-1)
fitB(x) == IF x.e <= 0 THEN P10(-1) ELSE P10(-3)

theFit(x) ==
    IF XLt(x.e, c1) THEN mbsRsyncLow(x)
    ELSE IF XLe(x.e, c2) THEN fitA(x)
    ELSE IF XLt(x.e, c3) THEN fitB(x)
    ELSE mbsRsyncHigh(x)

\* RMAfit(Xc, g): 0 where Xc g**3 < 0.5, the fit elsewhere.
RMAfit(Xc, gg) ==
    IF XLt(Xc.e + 3 * gg.e, xg3Crit) THEN Zero ELSE theFit(Xc)

\* Rsync(Xc), the Whittaker form (misc.whittW is not in src): the function
\* the fit approximates, with no cut at Xc g**3 = 0.5.
mbsRsync(Xc) == theFit(Xc)

Kernel(Xc, gg) == IF Rsync THEN mbsRsync(Xc) ELSE RMAfit(Xc, gg)

\* ------------------------------------------------------ the integrands
\* g = exp(lg) at a point lg of the log grid, p decades: 10^p.
\* Xc = 2 c / (3 g**2), the factor 2/3 carried by XcMant.
XcOf(p, c) == Div(c, Mul(P10(p), P10(p)))

\* j_mb.f(lg, c, q) = g**(1 - q) * Kernel
f_j(p, c, q) == Mul(Pow(P10(p), QPlus(QNeg(q), 1)), Kernel(XcOf(p, c), P10(p)))

\* q + 1 + g**2 / (g**2 - 1): the quotient is inf at g = 1 and 1 + 1/(g**2 - 1)
\* elsewhere, so the sum is the integer q + 2 unless that is 0.
absFactor(p, q) ==
    LET g2 == Mul(P10(p), P10(p))
        quot == Div(g2, Sub(g2, One))
    IN  IF q.k = "nan" \/ IsNaN(quot) THEN NaN
        ELSE IF quot.k = "inf" THEN quot
        ELSE IF q.v + 2 = 0 THEN Div(One, g2)
        ELSE FromInt(q.v + 2)

\* a_mb.f(lg, c, q) = g**(-q) * Kernel * (q + 1 + g**2 / (g**2 - 1))
f_a(p, c, q) ==
    Mul(Mul(Pow(P10(p), QNeg(q)), Kernel(XcOf(p, c), P10(p))), absFactor(p, q))

f(p, c, q) == IF mode = "j_mb" THEN f_j(p, c, q) ELSE f_a(p, c, q)

\* ------------------------------------------------------ the quadrature
\* np.log of a positive finite double, in decades.
Log(x) == x.e

\* The defaults of rtol and tol: 1.48e-8 in j_mb and 1.48e-5 in a_mb.
defaultTol(m) == IF m = "j_mb" THEN P10(-8) ELSE P10(-5)

\* b - a = ln(10) (decades from a to b), as a double.
intrange(a, b) ==
    IF b >= a THEN FromInt(((b - a) * 23) \div 10)
    ELSE Neg(FromInt(((a - b) * 23) \div 10))

\* The sum of f over the points level i adds to the trapezoid rule,
\* a + (2 j + 1) (b - a) / 2^i for j = 0 .. 2^(i-1) - 1, from point j on.
RECURSIVE difftrap(_, _, _, _, _, _)
difftrap(c, q, a, b, i, j) ==
    IF j >= 2^(i - 1) THEN Zero
    ELSE Add(f(a + ((2 * j + 1) * (b - a)) \div 2^i, c, q),
             difftrap(c, q, a, b, i, j + 1))

\* Whether the loop of romberg stops at a level: err < tol or err < rtol |result|.
converged(result, lastresult) ==
    LET err == Abs(Sub(result, lastresult))
    IN  Lt(err, tol) \/ Lt(err, Mul(rtol, Abs(result)))

\* A loop that runs one level past divmax: range(1, divmax + 2).
RECURSIVE rombergLoopPastDivmax(_, _, _, _, _, _, _)
rombergLoopPastDivmax(c, q, a, b, i, ordsum, lastresult) ==
    IF i > divmax + 1 THEN [res |-> lastresult, lev |-> i - 1, conv |-> FALSE]
    ELSE LET os == Add(ordsum, difftrap(c, q, a, b, i, 0))
             result == Mul(intrange(a, b), os)
         IN  IF converged(result, lastresult)
             THEN [res |-> result, lev |-> i, conv |-> TRUE]
             ELSE rombergLoopPastDivmax(c, q, a, b, i + 1, os, result)

\* The loop of romberg from level i on: ordsum is the running sum of the
\* ordinates and lastresult the estimate of level i - 1.  Past divmax the
\* loop ends with a warning and the last estimate is returned.
RECURSIVE rombergLoop(_, _, _, _, _, _, _)
rombergLoop(c, q, a, b, i, ordsum, lastresult) ==
    IF i > divmax THEN [res |-> lastresult, lev |-> i - 1, conv |-> FALSE]
    ELSE LET os == Add(ordsum, difftrap(c, q, a, b, i, 0))
             result == Mul(intrange(a, b), os)
         IN  IF converged(result, lastresult)
             THEN [res |-> result, lev |-> i, conv |-> TRUE]
             ELSE rombergLoop(c, q, a, b, i + 1, os, result)

\* integrate.romberg(f, a, b, args=(c, q), rtol, tol, divmax): the estimate
\* (res), the refinement levels run (lev) and whether the tolerance was met.
romberg(c, q, a, b) ==
    LET ordsum == Add(f(a, c, q), f(b, c, q))
    IN  rombergLoop(c, q, a, b, 1, ordsum, Mul(intrange(a, b), ordsum))

\* ----------------------------------------------------------- integrals
DensityFloor == P10(-100)   \* 1e-100
SumFloor == P10(-200)       \* 1e-200
qMax == 8
qMin == -8

\* A test that lets a density at the floor through: N >= 1e-100.
integratedFromFloor(k) ==
    ~Lt(N[k + 1], DensityFloor) /\ ~Lt(N[k + 2], DensityFloor)

\* The test of segment k (from 0): N[k] > 1e-100 and N[k + 1] > 1e-100.
integrated(k) == Gt(N[k + 1], DensityFloor) /\ Gt(N[k + 2], DensityFloor)

\* q = -np.log(N[k + 1] / N[k]) / np.log(g[k + 1] / g[k])
slope(k) ==
    LET num == -Log(Div(N[k + 2], N[k + 1]))
        den == Log(Div(g[k + 2], g[k + 1]))
    IN  IF den = 0 THEN (IF num = 0 THEN QNaN ELSE QInf(IF num > 0 THEN 1 ELSE -1))
        ELSE IF den > 0 THEN QFin(num \div den)
        ELSE QFin((-num) \div (-den))

\* if (q > 8.): q = 8.    if (q < -8.): q = -8.
clamp(q) ==
    LET q1 == IF QGt(q, qMax) THEN QFin(qMax) ELSE q
    IN  IF QLt(q1, qMin) THEN QFin(qMin) ELSE q1

\* if (sum < 1e-200): sum = 0
floorSum(s) == IF Lt(s, SumFloor) THEN Zero ELSE s

NoObs ==
    [seg |-> -1, skipped |-> TRUE, q |-> QNaN, lev |-> 0, conv |-> TRUE,
     I2 |-> Zero, before |-> Zero, after |-> Zero]

\* One iteration of the loop of integrals(c) at index k with running sum s.
body(c, k, s) ==
    IF integrated(k)
    THEN LET q == clamp(slope(k))
             r == romberg(c, q, Log(g[k + 1]), Log(g[k + 2]))
             s1 == Add(s, Mul(Mul(N[k + 1], r.res), Pow(g[k + 1], q)))
         IN  [seg |-> k, skipped |-> FALSE, q |-> q, lev |-> r.lev,
              conv |-> r.conv, I2 |-> r.res, before |-> s, after |-> floorSum(s1)]
    ELSE [seg |-> k, skipped |-> TRUE, q |-> QNaN, lev |-> 0, conv |-> TRUE,
          I2 |-> Zero, before |-> s, after |-> floorSum(s)]

\* ------------------------------------------------------ the two calls
\* nuB = C.nuConst * B        chis = nu / nuB
nuB == Mul(nuConst, B)
chis == [i \in 1..Len(nu) |-> Div(nu[i], nuB)]

\* A slot of the list Parallel is still to fill.
Pending == [k |-> "none", s |-> 0, e |-> 0]

\* A closure bound late: every task is given the last element of chis.
taskArgLast(i) == chis[Len(nu)]

\* delayed(integrals)(chi) for chi in chis: task i is given chis[i].
taskArg(i) == chis[i]

\* A pool that hands the results back in the order they arrive in.
collectAsCompleted(list, i, value) ==
    LET j == CHOOSE j \in 1..Len(list) :
                 list[j] = Pending /\ \A m \in 1..(j - 1) : list[m] # Pending
    IN  [list EXCEPT ![j] = value]

\* Parallel(...)(...) returns the results in the order of the tasks it was
\* given, whatever the order they complete in: task i's result is item i.
collect(list, i, value) == [list EXCEPT ![i] = value]

\* A return of a_mb without the division by nu**2.
normalizeNoNuSquared(list) ==
    [i \in 1..Len(list) |->
        Mul(Mul(IF mode = "j_mb" THEN jmbConst ELSE ambConst, nuB), list[i])]

\* return C.jmbConst * nuB * np.asarray(jnu)
\* return C.ambConst * nuB * np.asarray(anu) / nu**2
normalize(list) ==
    [i \in 1..Len(list) |->
        IF mode = "j_mb" THEN Mul(Mul(jmbConst, nuB), list[i])
        ELSE Div(Mul(Mul(ambConst, nuB), list[i]), Mul(nu[i], nu[i]))]

\* The tasks of the call under way, one per frequency.
Tasks == DOMAIN st
Busy == Cardinality({i \in Tasks : st[i] = "running"})

\* One accumulator for every task: each reads the first task's sum.
sharedSum(i) == sum[1]

\* sum is a local of each call of integrals: task i reads its own.
ownSum(i) == sum[i]

\* ------------------------------------------------------------- inputs
Step == 2^MaxDivmax
FreqSet == {P10(4), P10(17)}
GammaSet == {P10(i * Step) : i \in 0..(MaxGrid - 1)}
DensitySet == {Zero, P10(-100), P10(-99), P10(0)}

SeqsUpTo(S, n) == UNION {[1..m -> S] : m \in 0..n}

Increasing(s) == \A i \in 1..(Len(s) - 1) : Lt(s[i], s[i + 1])

\* The grids a caller may pass: every grid of up to two points, and the
\* strictly increasing longer ones.
Grids == {s \in SeqsUpTo(GammaSet, MaxGrid) : Len(s) <= 2 \/ Increasing(s)}

Perms(n) == {p \in [1..n -> 1..n] : \A i, j \in 1..n : p[i] = p[j] => i = j}
Identity(n) == [i \in 1..n |-> i]

Init ==
    /\ mode \in {"j_mb", "a_mb"}
    /\ nu \in SeqsUpTo(FreqSet, MaxFreqs)
    /\ g \in Grids
    /\ N \in [1..Len(g) -> DensitySet]
    /\ B = One
    /\ Rsync \in BOOLEAN
    /\ divmax = MaxDivmax
    /\ tol \in {defaultTol(mode), Zero}
    /\ rtol = tol
    /\ workers \in 1..MaxWorkers
    /\ pc = "idle"
    /\ ncalls = 0
    /\ perm = <<>>
    /\ prev = <<>>
    /\ st = <<>>
    /\ arg = <<>>
    /\ kk = <<>>
    /\ sum = <<>>
    /\ obs = <<>>
    /\ ret = <<>>
    /\ jnu = <<>>
    /\ order = <<>>
    /\ out = <<>>
    /\ fitIdle
    /\ lcIdle

\* ------------------------------------------------------------ actions
\* A call of j_mb or a_mb up to the start of Parallel.  A later call is
\* given the same grids and the frequencies of the call before, permuted.
Enter(p) ==
    /\ pc \in {"idle", "returned"}
    /\ ncalls < MaxCalls
    /\ ncalls = 0 => p = Identity(Len(nu))
    /\ nu' = [i \in 1..Len(nu) |-> nu[p[i]]]
    /\ perm' = p
    /\ prev' = out
    /\ ncalls' = ncalls + 1
    /\ pc' = "running"
    /\ st' = [i \in 1..Len(nu) |-> "pending"]
    /\ arg' = [i \in 1..Len(nu) |-> Pending]
    /\ kk' = [i \in 1..Len(nu) |-> 0]
    /\ sum' = [i \in 1..Len(nu) |-> Zero]
    /\ obs' = [i \in 1..Len(nu) |-> NoObs]
    /\ ret' = [i \in 1..Len(nu) |-> Pending]
    /\ jnu' = [i \in 1..Len(nu) |-> Pending]
    /\ order' = <<>>
    /\ out' = <<>>
    /\ UNCHANGED <<mode, g, N, B, Rsync, divmax, tol, rtol, workers>>
    /\ UNCHANGED <<fitVars, lcVars>>

\* The pool starts the next task, in the order given, on a free worker:
\* integrals(c) runs sum = 0.
Dispatch(i) ==
    /\ pc = "running"
    /\ i \in Tasks
    /\ st[i] = "pending"
    /\ \A j \in 1..(i - 1) : st[j] # "pending"
    /\ Busy < workers
    /\ st' = [st EXCEPT ![i] = "running"]
    /\ arg' = [arg EXCEPT ![i] = taskArg(i)]
    /\ kk' = [kk EXCEPT ![i] = 0]
    /\ sum' = [sum EXCEPT ![i] = Zero]
    /\ UNCHANGED <<mode, nu, g, N, B, Rsync, divmax, tol, rtol, workers, pc, ncalls,
                   perm, prev, obs, ret, jnu, order, out>>
    /\ UNCHANGED <<fitVars, lcVars>>

\* One iteration of for k in range(g.size - 1) in task i.
Segment(i) ==
    /\ pc = "running"
    /\ i \in Tasks
    /\ st[i] = "running"
    /\ kk[i] < Len(g) - 1
    /\ LET o == body(arg[i], kk[i], ownSum(i))
       IN  /\ obs' = [obs EXCEPT ![i] = o]
           /\ sum' = [sum EXCEPT ![i] = o.after]
    /\ kk' = [kk EXCEPT ![i] = kk[i] + 1]
    /\ UNCHANGED <<mode, nu, g, N, B, Rsync, divmax, tol, rtol, workers, pc, ncalls,
                   perm, prev, st, arg, ret, jnu, order, out>>
    /\ UNCHANGED <<fitVars, lcVars>>

\* The loop of task i is over: return sum, which the pool collects.
Finish(i) ==
    /\ pc = "running"
    /\ i \in Tasks
    /\ st[i] = "running"
    /\ kk[i] >= Len(g) - 1
    /\ ret' = [ret EXCEPT ![i] = sum[i]]
    /\ jnu' = collect(jnu, i, sum[i])
    /\ order' = Append(order, i)
    /\ st' = [st EXCEPT ![i] = "done"]
    /\ UNCHANGED <<mode, nu, g, N, B, Rsync, divmax, tol, rtol, workers, pc, ncalls,
                   perm, prev, arg, kk, sum, obs, out>>
    /\ UNCHANGED <<fitVars, lcVars>>

\* Parallel has every result: the call returns the normalized array.
Return ==
    /\ pc = "running"
    /\ \A i \in Tasks : st[i] = "done"
    /\ out' = normalize(jnu)
    /\ pc' = "returned"
    /\ UNCHANGED <<mode, nu, g, N, B, Rsync, divmax, tol, rtol, workers, ncalls, perm,
                   prev, st, arg, kk, sum, obs, ret, jnu, order>>
    /\ UNCHANGED <<fitVars, lcVars>>

Next ==
    \/ \E p \in Perms(Len(nu)) : Enter(p)
    \/ \E i \in Tasks : Dispatch(i)
    \/ \E i \in Tasks : Segment(i)
    \/ \E i \in Tasks : Finish(i)
    \/ Return

Spec == Init /\ [][Next]_vars

\* The step a running task takes next, told by what it does to the task's
\* own position: the loop index moves on (Segment) or the task is done
\* (Finish).  No other step of Next does either to a running task.
Advance(i) ==
    /\ pc = "running"
    /\ i \in Tasks
    /\ st[i] = "running"
    /\ \/ /\ kk[i] < Len(g) - 1
          /\ kk' = [kk EXCEPT ![i] = kk[i] + 1]
          /\ st' = st
       \/ /\ kk[i] >= Len(g) - 1
          /\ st' = [st EXCEPT ![i] = "done"]
          /\ kk' = kk

\* The pool runs every task it has started and starts every task it was
\* given; Parallel returns once it has every result.  Nothing makes the
\* caller call again.
FairSpec ==
    /\ Spec
    /\ \A i \in 1..MaxFreqs : WF_vars(Dispatch(i))
    /\ \A i \in 1..MaxFreqs : WF_<<kk, st>>(Advance(i))
    /\ WF_vars(Return)

\* --------------------------------------------- the ranges of the fits
MaxFitDecade == 2   \* largest decade of an argument Xc of a fit
MaxFitG == 2        \* largest decade of an argument g of a fit

\* An argument Xc > 0 is <<m, d>>, the number (m / 1000) 10^d with
\* 1000 <= m < 10000, as the thresholds c1, c2, c3 are; FitNaN is nan.
FitNaN == <<0, 0>>

\* Comparisons of numpy: every comparison with nan is False.
tLt(x, t) ==
    x # FitNaN /\ t # FitNaN /\ (x[2] < t[2] \/ (x[2] = t[2] /\ x[1] < t[1]))
tLe(x, t) == tLt(x, t) \/ (x # FitNaN /\ x = t)
tGt(x, t) == tLt(t, x)
tGe(x, t) == tLe(t, x)

\* Xc * g**3 for g = 10^p.
xg3(x, p) == IF x = FitNaN THEN FitNaN ELSE <<x[1], x[2] + 3 * p>>

\* The thresholds of FDB08fit: 0.01, 1.0 and 10.0.
fdbLow == <<1000, -2>>
fdbMid == <<1000, 0>>
fdbHigh == <<1000, 1>>

\* np.piecewise(x, condlist, funclist) on a scalar: the functions it
\* evaluates, each where its condition holds, in the order of funclist.
RECURSIVE piecewise(_, _)
piecewise(condlist, funclist) ==
    IF condlist = <<>> THEN <<>>
    ELSE (IF Head(condlist) THEN <<Head(funclist)>> ELSE <<>>)
             \o piecewise(Tail(condlist), Tail(funclist))

\* Its value: each function overwrites the entries of its condition, so the
\* last one evaluated gives the value, and 0 is left where no condition holds.
piecewiseOut(hit) == IF hit = <<>> THEN "0.0" ELSE hit[Len(hit)]

\* A condition list whose second range leaves x = c2 out.
theFitRangesOpenAtC2(x) ==
    piecewise(<<tLt(x, c1),
                tGe(x, c1) /\ tLt(x, c2),
                tGt(x, c2) /\ tLt(x, c3),
                tGe(x, c3)>>,
              <<"asym_low", "A", "B", "asym_high">>)

\* RMAfit.theFit: [x < c1, (x >= c1) & (x <= c2), (x > c2) & (x < c3), x >= c3]
theFitRanges(x) ==
    piecewise(<<tLt(x, c1),
                tGe(x, c1) /\ tLe(x, c2),
                tGt(x, c2) /\ tLt(x, c3),
                tGe(x, c3)>>,
              <<"asym_low", "A", "B", "asym_high">>)

\* The forms of the inner piecewise in place of the function that calls it.
RECURSIVE expand(_, _)
expand(outer, inner) ==
    IF outer = <<>> THEN <<>>
    ELSE (IF Head(outer) = "theFit" THEN inner ELSE <<Head(outer)>>)
             \o expand(Tail(outer), inner)

\* RMAfit: [Xc * g**3 < 0.5, Xc * g**3 >= 0.5], [0.0, theFit]
RMAfitRanges(x, p) ==
    expand(piecewise(<<tLt(xg3(x, p), xg3Crit), tGe(xg3(x, p), xg3Crit)>>,
                     <<"0.0", "theFit">>),
           theFitRanges(x))

\* FDB08fit: [Xc < 0.01, (Xc >= 0.01) & (Xc < 1.0), (Xc >= 1.0) & (Xc < 10.0),
\* Xc >= 10.0]
FDB08fitRanges(x) ==
    piecewise(<<tLt(x, fdbLow),
                tGe(x, fdbLow) /\ tLt(x, fdbMid),
                tGe(x, fdbMid) /\ tLt(x, fdbHigh),
                tGe(x, fdbHigh)>>,
              <<"asym_low", "A", "B", "asym_high">>)

\* RMA: [Xc * g**3 <= 0.5, Xc * g**3 > 0.5], [0.0, x * SL07(x)]
RMARanges(x, p) ==
    piecewise(<<tLe(xg3(x, p), xg3Crit), tGt(xg3(x, p), xg3Crit)>>,
              <<"0.0", "xSL07">>)

\* The arguments tried: around every threshold, in every decade, and nan.
FitMantissas ==
    {1000, 9999} \cup {t[1] + e : t \in {c1, c2, c3, xg3Crit}, e \in {-1, 0, 1}}
FitArgs ==
    {FitNaN} \cup
    (FitMantissas \X ((0 - MaxFitDecade - 3)..MaxFitDecade))

\* j_mb and a_mb are not being called.
mbIdle ==
    /\ mode = "none"
    /\ nu = <<>>
    /\ g = <<>>
    /\ N = <<>>
    /\ B = One
    /\ Rsync = FALSE
    /\ divmax = MaxDivmax
    /\ tol = Zero
    /\ rtol = Zero
    /\ workers = 1
    /\ pc = "idle"
    /\ ncalls = 0
    /\ perm = <<>>
    /\ prev = <<>>
    /\ st = <<>>
    /\ arg = <<>>
    /\ kk = <<>>
    /\ sum = <<>>
    /\ obs = <<>>
    /\ ret = <<>>
    /\ jnu = <<>>
    /\ order = <<>>
    /\ out = <<>>

FitInit ==
    /\ mbIdle
    /\ lcIdle
    /\ fn = "none"
    /\ fitX \in FitArgs
    /\ fitG \in 0..MaxFitG
    /\ fitHit = <<>>
    /\ fitOut = "none"

\* mbs.RMAfit(Xc, g)
CallRMAfit ==
    /\ fn = "none"
    /\ fn' = "RMAfit"
    /\ fitHit' = RMAfitRanges(fitX, fitG)
    /\ fitOut' = piecewiseOut(RMAfitRanges(fitX, fitG))
    /\ UNCHANGED <<fitX, fitG, mbVars, lcVars>>

\* mbs.FDB08fit(Xc)
CallFDB08fit ==
    /\ fn = "none"
    /\ fn' = "FDB08fit"
    /\ fitHit' = FDB08fitRanges(fitX)
    /\ fitOut' = piecewiseOut(FDB08fitRanges(fitX))
    /\ UNCHANGED <<fitX, fitG, mbVars, lcVars>>

\* mbs.RMA(Xc, g)
CallRMA ==
    /\ fn = "none"
    /\ fn' = "RMA"
    /\ fitHit' = RMARanges(fitX, fitG)
    /\ fitOut' = piecewiseOut(RMARanges(fitX, fitG))
    /\ UNCHANGED <<fitX, fitG, mbVars, lcVars>>

FitNext ==
    \/ CallRMAfit
    \/ CallFDB08fit
    \/ CallRMA

FitSpec == FitInit /\ [][FitNext]_vars

\* ------------------------------- spectra.py: LightCurves and spectrum
MaxAxis == 3          \* longest axis nus (times) of a table
MaxAxisDecade == 3    \* the axis points are 10^0 .. 10^MaxAxisDecade
MaxLcCalls == 2       \* calls of LightCurves.pwl_interp on the same arrays

\* The axis points and the flux are doubles as above.  The point asked for,
\* nu_in, lies between axis points: it is 10^(L / 10) for an integer L, and so
\* is a returned value, whose exponent e counts tenths of a decade.
toTenths(x) == IF x.k = "fin" THEN [x EXCEPT !.e = 10 * x.e] ELSE x

\* 1000 * 10^(r / 10) for r = 0 .. 9.
Tenth == <<1000, 1259, 1585, 1995, 2512, 3162, 3981, 5012, 6310, 7943>>

\* 1000 times an axis point and 1000 times 10^(L / 10), L >= 0.
axisVal(x) == 1000 * 10^(x.e)
inVal(L) == Tenth[(L % 10) + 1] * 10^(L \div 10)

\* |array[i] - value|, times 1000.
dist(x, L) ==
    IF axisVal(x) >= inVal(L) THEN axisVal(x) - inVal(L)
    ELSE inVal(L) - axisVal(x)

\* misc.find_nearest(array, value) (misc is not in src): the index, from 0,
\* of the entry closest to value, the first of them when two are as close.
find_nearest(array, L) ==
    CHOOSE i \in 0..(Len(array) - 1) :
        /\ \A j \in 0..(Len(array) - 1) : dist(array[i + 1], L) <= dist(array[j + 1], L)
        /\ \A j \in 0..(i - 1) : dist(array[j + 1], L) > dist(array[i + 1], L)

\* a[i] of Python: a negative index counts from the end, and an index
\* outside -len(a) .. len(a) - 1 raises IndexError.
inRange(array, i) == 0 - Len(array) <= i /\ i < Len(array)
pyGet(array, i) == IF i >= 0 THEN array[i + 1] ELSE array[Len(array) + i + 1]

\* t_pos, t = misc.find_nearest(times, t_in)
\* if t > t_in: t_pos += 1
\* if times[t_pos] >= times[-1]: t_pos -= 1
\* The index it ends with, or the index whose read raised IndexError.
adjust(array, L) ==
    LET p0 == find_nearest(array, L)
        p1 == IF axisVal(array[p0 + 1]) > inVal(L) THEN p0 + 1 ELSE p0
    IN  IF ~inRange(array, p1) THEN [pos |-> p1, raised |-> TRUE]
        ELSE [pos |-> IF ~Lt(pyGet(array, p1), pyGet(array, -1))
                      THEN p1 - 1 ELSE p1,
              raised |-> FALSE]

FluxFloor == P10(-100)      \* 1e-100
sMax == 8
sMin == -8

\* s = -np.log(flux[.., pos + 1] / flux[.., pos]) / np.log(nus[pos + 1] / nus[pos])
pwlSlope(F1, F2, x1, x2) ==
    LET num == -Log(Div(F2, F1))
        den == Log(Div(x2, x1))
    IN  IF den = 0 THEN (IF num = 0 THEN QNaN ELSE QInf(IF num > 0 THEN 1 ELSE -1))
        ELSE IF den > 0 THEN QFin(num \div den)
        ELSE QFin((-num) \div (-den))

\* if s > 8.0: s = 8.0     if s < -8.0: s = -8.0
clampS(q) ==
    LET q1 == IF QGt(q, sMax) THEN QFin(sMax) ELSE q
    IN  IF QLt(q1, sMin) THEN QFin(sMin) ELSE q1

\* flux[.., pos] * (nu_in / nus[pos])**s for a flux above the floor, in
\* tenths; numpy gives 1.0 ** nan = 1.0.
pwlValue(F1, L, x1, q) ==
    IF q.k = "nan" THEN (IF L = 10 * x1.e THEN toTenths(F1) ELSE NaN)
    ELSE IF q.k = "inf"
         THEN (IF L = 10 * x1.e THEN toTenths(F1)
               ELSE IF (q.v > 0) = (L > 10 * x1.e) THEN Inf(1) ELSE Zero)
    ELSE [k |-> "fin", s |-> 1, e |-> 10 * F1.e + q.v * (L - 10 * x1.e)]

\* The body of the loop of pwl_interp for one entry of lc (spec), at index pos.
interpAt(fl, array, L, pos) ==
    LET F1 == pyGet(fl, pos)
        F2 == pyGet(fl, pos + 1)
    IN  IF Gt(F1, FluxFloor) /\ Gt(F2, FluxFloor)
        THEN pwlValue(F1, L, pyGet(array, pos),
                      clampS(pwlSlope(F1, F2, pyGet(array, pos), pyGet(array, pos + 1))))
        ELSE Zero

\* Strictly increasing axes of up to MaxAxis points, the flux on them, and the
\* points asked for between the first and the last.
AxisSet ==
    {a \in SeqsUpTo({P10(e) : e \in 0..MaxAxisDecade}, MaxAxis) :
        Len(a) >= 1 /\ Increasing(a)}
FluxSet == {Zero, P10(0), P10(2)}
InSet(a) ==
    {L \in (10 * a[1].e)..(10 * a[Len(a)].e) : L % 10 \in {0, 3, 8}}

\* What the call before returned.
lastCall == [fn |-> lcFn, pc |-> lcPc, lc |-> lc]

LcInit ==
    /\ mbIdle
    /\ fitIdle
    /\ nus \in AxisSet
    /\ nu_in \in InSet(nus)
    /\ flux \in [1..Len(nus) -> FluxSet]
    /\ flux0 = flux
    /\ lcPc = "idle"
    /\ lcFn = "none"
    /\ nu_pos = 0
    /\ lc = <<>>
    /\ lcPrev = [fn |-> "none", pc |-> "idle", lc |-> <<>>]
    /\ lcCalls = 0

\* spectrum.pwl_interp(t_in, nu, times, flux), with times = nus, t_in = nu_in
\* and one frequency: spec has one entry.
SpectrumPwlInterp ==
    /\ lcFn' = "spectrum.pwl_interp"
    /\ lcPrev' = lastCall
    /\ LET a == adjust(nus, nu_in)
       IN  /\ nu_pos' = a.pos
           /\ IF a.raised
              THEN lcPc' = "IndexError" /\ lc' = <<>>
              ELSE lcPc' = "returned" /\ lc' = <<interpAt(flux, nus, nu_in, a.pos)>>
    /\ UNCHANGED <<nus, nu_in, flux, flux0, lcCalls, mbVars, fitVars>>

\* flux = flux / nus, a new array: the caller's array keeps its values.
dividedCopy(fl, array) == fl

\* flux /= nus
divided(fl, array) == [k \in 1..Len(fl) |-> Div(fl[k], array[k])]

\* LightCurves.pwl_interp(nu_in, t, nus, flux), with one time: lc has one
\* entry.  flux /= nus comes before the index adjustment.
LcPwlInterp ==
    /\ lcCalls < MaxLcCalls
    /\ lcCalls' = lcCalls + 1
    /\ lcFn' = "LightCurves.pwl_interp"
    /\ lcPrev' = lastCall
    /\ flux' = divided(flux, nus)
    /\ IF Len(nus) > 1
       THEN LET a == adjust(nus, nu_in)
            IN  /\ nu_pos' = a.pos
                /\ IF a.raised
                   THEN lcPc' = "IndexError" /\ lc' = <<>>
                   ELSE /\ lcPc' = "returned"
                        /\ lc' = <<interpAt(divided(flux, nus), nus, nu_in, a.pos)>>
       ELSE /\ nu_pos' = find_nearest(nus, nu_in)
            /\ lcPc' = "returned"
            /\ lc' = <<toTenths(divided(flux, nus)[find_nearest(nus, nu_in) + 1])>>
    /\ UNCHANGED <<nus, nu_in, flux0, mbVars, fitVars>>

\* LightCurves.nearest(nu_in, nus, flux): flux[:, nu_pos], a view of flux.
LcNearest ==
    /\ lcFn' = "LightCurves.nearest"
    /\ lcPrev' = lastCall
    /\ nu_pos' = find_nearest(nus, nu_in)
    /\ lcPc' = "returned"
    /\ lc' = <<toTenths(flux[find_nearest(nus, nu_in) + 1])>>
    /\ UNCHANGED <<nus, nu_in, flux, flux0, lcCalls, mbVars, fitVars>>

\* The bands [nu_min, nu_max] integ is called with, in tenths of a decade:
\* the point nu_in alone, a band that starts below the axis, one that ends
\* above it, and the bands between two neighbouring axis points.
IntegArgs ==
    {<<nu_in, nu_in>>,
     <<10 * nus[1].e - 3, 10 * nus[Len(nus)].e>>,
     <<nu_in, 10 * nus[Len(nus)].e + 3>>}
    \cup {<<10 * nus[k].e, 10 * nus[k + 1].e>> : k \in 1..(Len(nus) - 1)}

\* np.log(flux[i, :], where=(flux[i, :] != 0.0)) has no out array: where the
\* flux is 0 the logarithm is whatever the new array held, and so is the
\* value interpolated from it.
Uninit == {Zero, [k |-> "fin", s |-> 1, e |-> 0], Inf(1), NaN}

\* np.exp(np.interp(np.log(nu_max), np.log(freqs), np.log(flux[i, :], ...))):
\* the values it can give at L, in tenths.
interpLog(fl, array, L) ==
    LET n == Len(array)
        k == CHOOSE j \in 1..n :
                 /\ 10 * array[j].e <= L
                 /\ j < n => L < 10 * array[j + 1].e
    IN  IF L = 10 * array[k].e
        THEN (IF fl[k] = Zero THEN Uninit ELSE {toTenths(fl[k])})
        ELSE IF fl[k] = Zero \/ fl[k + 1] = Zero THEN Uninit
        ELSE IF fl[k].k # "fin" \/ fl[k + 1].k # "fin" THEN {NaN, Inf(1)}
        ELSE {[k |-> "fin", s |-> 1,
               e |-> 10 * fl[k].e
                     + ((10 * fl[k + 1].e - 10 * fl[k].e) * (L - 10 * array[k].e))
                           \div (10 * array[k + 1].e - 10 * array[k].e)]}

\* sci_integ.simps(nus * Fnu[i, :], x=np.log(nus)) on a band of two axis
\* points j, j + 1 is the trapezoid between them, where nus * Fnu is the flux.
simpsPair(fl, array, j) ==
    toTenths(Mul(intrange(Log(array[j]), Log(array[j + 1])),
                 Add(Mul(array[j], Div(fl[j], array[j])),
                     Mul(array[j + 1], Div(fl[j + 1], array[j + 1])))))

\* LightCurves.integ(nu_min, nu_max, t, freqs, flux) on the band <<lo, hi>>.
LcInteg(band) ==
    /\ lcFn' = "LightCurves.integ"
    /\ lcPrev' = lastCall
    /\ lcPc' = "returned"
    /\ nu_pos' = nu_pos
    /\ IF band[1] < 10 * nus[1].e \/ band[2] > 10 * nus[Len(nus)].e
       THEN lc' = <<Zero>>
       ELSE IF band[2] = band[1]
       THEN \E v \in interpLog(flux, nus, band[1]) : lc' = <<v>>
       ELSE \E j \in 1..(Len(nus) - 1) :
                /\ band[1] = 10 * nus[j].e
                /\ lc' = <<simpsPair(flux, nus, j)>>
    /\ UNCHANGED <<nus, nu_in, flux, flux0, lcCalls, mbVars, fitVars>>

LcNext ==
    \/ SpectrumPwlInterp
    \/ LcPwlInterp
    \/ LcNearest
    \/ \E band \in IntegArgs : LcInteg(band)

LcSpec == LcInit /\ [][LcNext]_vars

\* ------------------------------------------------------------- claims
Returned == pc = "returned"
Ran(i) == obs[i].seg >= 0
Ge(x, y) == Gt(x, y) \/ (~IsNaN(x) /\ x = y)
Le(x, y) == Lt(x, y) \/ (~IsNaN(x) /\ x = y)

\* C1: when a call returns, the array has one element per frequency, task i
\* was started with chis[i], and element i is the normalized value task i
\* returned, in whatever order the tasks completed.
C1_OutputInInputOrder ==
    Returned =>
        /\ Len(out) = Len(nu)
        /\ Len(order) = Len(nu)
        /\ \A i \in Tasks : arg[i] = Div(nu[i], Mul(nuConst, B))
        /\ out = normalize(ret)

\* A call returned two different values whose tasks completed in the
\* reverse of the input order.
C1_Witness ==
    /\ Returned
    /\ Len(nu) = 2
    /\ order = <<2, 1>>
    /\ ret[1] # ret[2]
    /\ out[1] # out[2]

\* C2 (as amended): an iteration skips its segment k (no slope, no
\* quadrature, the sum left as it was) exactly when N[k] or N[k + 1] is at or
\* below 1e-100, and a two-point grid with a point at the floor gives the
\* task the sum 0.
C2_SkipAtOrBelowFloor ==
    \A i \in Tasks :
        /\ Ran(i) =>
             /\ obs[i].skipped <=>
                  \/ Le(N[obs[i].seg + 1], DensityFloor)
                  \/ Le(N[obs[i].seg + 2], DensityFloor)
             /\ obs[i].skipped =>
                  /\ obs[i].lev = 0
                  /\ obs[i].q = QNaN
                  /\ obs[i].after = obs[i].before
        /\ (st[i] = "done" /\ Len(g) = 2
              /\ (N[1] = DensityFloor \/ N[2] = DensityFloor)) => ret[i] = Zero

\* On a strictly increasing grid, a task skipped a segment whose first
\* density is exactly 1e-100 and whose second is above it.
C2_Witness ==
    \E i \in Tasks :
        /\ Increasing(g)
        /\ Ran(i)
        /\ obs[i].skipped
        /\ N[obs[i].seg + 1] = DensityFloor
        /\ Gt(N[obs[i].seg + 2], DensityFloor)
        /\ st[i] = "done"

\* C2 as stated: a segment is skipped exactly when N[k] or N[k + 1] is
\* below 1e-100.
C2_SkipOnlyBelowFloor ==
    \A i \in Tasks :
        Ran(i) =>
            (obs[i].skipped <=>
                \/ Lt(N[obs[i].seg + 1], DensityFloor)
                \/ Lt(N[obs[i].seg + 2], DensityFloor))

\* C3 as stated, on the grids C5 lets through (strictly increasing, two
\* points or more): after every iteration the running sum is 0 or at least
\* 1e-200, and every element of the returned array is non-negative.
C3_SumFloorNonNegative ==
    (Len(g) >= 2 /\ Increasing(g)) =>
        /\ \A i \in Tasks : Ran(i) => (sum[i] = Zero \/ Ge(sum[i], SumFloor))
        /\ Returned => \A i \in 1..Len(out) : Ge(out[i], Zero)

\* C4 as stated: the slope passed to the quadrature of an integrated
\* segment lies in [-8, 8].
C4_SlopeClamped ==
    \A i \in Tasks :
        (Ran(i) /\ ~obs[i].skipped) =>
            (obs[i].q.k = "fin" /\ qMin <= obs[i].q.v /\ obs[i].q.v <= qMax)

\* C5 as stated: with a grid of fewer than 2 points or one that is not
\* strictly increasing, a call given frequencies starts no task and returns
\* no array.
C5_InvalidGridRejected ==
    ((Len(g) < 2 \/ ~Increasing(g)) /\ Len(nu) > 0) =>
        (~Returned /\ \A i \in Tasks : st[i] = "pending")

\* Task i has integrated a segment with an end at g = 1, where a_mb.f
\* divides by g**2 - 1 = 0.
DividedByZero(i) ==
    /\ mode = "a_mb"
    /\ Ran(i)
    /\ ~obs[i].skipped
    /\ (g[obs[i].seg + 1] = One \/ g[obs[i].seg + 2] = One)

\* C6 as stated: once a task of a_mb has met the division by zero of a grid
\* point g = 1, the task does not complete and the call returns no array.
C6_GammaOneFatal ==
    \A i \in Tasks : DividedByZero(i) => (st[i] # "done" /\ ~Returned)

\* The trapezoid estimate of level lev, from the ordinates of levels 0..lev.
RECURSIVE C7_ordsum(_, _, _, _, _)
C7_ordsum(c, q, a, b, lev) ==
    IF lev = 0 THEN Add(f(a, c, q), f(b, c, q))
    ELSE Add(C7_ordsum(c, q, a, b, lev - 1), difftrap(c, q, a, b, lev, 0))

C7_Bounded ==
    \A i \in Tasks :
        /\ obs[i].lev <= divmax
        /\ Ran(i) => obs[i].seg = kk[i] - 1
        /\ st[i] = "done" => kk[i] = (IF Len(g) = 0 THEN 0 ELSE Len(g) - 1)
        /\ (Ran(i) /\ ~obs[i].skipped /\ ~obs[i].conv) =>
             /\ obs[i].lev = divmax
             /\ obs[i].I2 =
                  Mul(intrange(Log(g[kk[i]]), Log(g[kk[i] + 1])),
                      C7_ordsum(arg[i], obs[i].q, Log(g[kk[i]]),
                                Log(g[kk[i] + 1]), divmax))
        /\ st[i] = "running" =>
             /\ pc = "running"
             /\ kk[i] < Len(g) - 1 \/ kk[i] >= Len(g) - 1

\* C7: a task never runs a quadrature past divmax levels, takes the estimate
\* of level divmax when the tolerance is not met, goes through the segments
\* 0 .. g.size - 2 in order, can always take its next step whatever the
\* other tasks do, and every call that has begun returns.
C7_TasksTerminate == [](C7_Bounded) /\ ((pc = "running") ~> Returned)

\* A call returned after a quadrature ran to divmax without meeting the
\* tolerance.
C7_Witness ==
    /\ Returned
    /\ Len(g) = MaxGrid
    /\ Increasing(g)
    /\ \E i \in Tasks :
        /\ Ran(i) /\ ~obs[i].skipped /\ ~obs[i].conv /\ obs[i].lev = divmax
        /\ obs[i].I2.k = "fin" /\ obs[i].I2.s = 1
        /\ out[i].k = "fin" /\ out[i].s = 1

\* C8: a call given the frequencies of the call before permuted, on the same
\* grid, B and kernel, returns the array of the call before permuted the same
\* way, and equal frequencies of one array get equal values.
C8_PermutationEquivariant ==
    Returned =>
        /\ \A i, j \in 1..Len(out) : nu[i] = nu[j] => out[i] = out[j]
        /\ ncalls >= 2 =>
             /\ Len(out) = Len(prev)
             /\ \A i \in 1..Len(out) : out[i] = prev[perm[i]]

\* The second call was given two frequencies swapped and returned two
\* different positive values, swapped.
C8_Witness ==
    /\ Returned
    /\ ncalls = 2
    /\ perm = <<2, 1>>
    /\ nu[1] # nu[2]
    /\ Gt(out[1], Zero) /\ Gt(out[2], Zero)
    /\ out[1] # out[2]
    /\ out = <<prev[2], prev[1]>>

\* Between the start of Parallel and its return, a step that changes the sum
\* of a task is that task's next iteration and leaves every other task's sum
\* and loop index alone.
C9_OwnSumOnly ==
    (pc = "running" /\ pc' = "running") =>
        \A j \in Tasks :
            sum'[j] # sum[j] =>
                /\ kk'[j] = kk[j] + 1
                /\ \A m \in Tasks \ {j} : sum'[m] = sum[m] /\ kk'[m] = kk[m]

\* C9: a call given the inputs of the call before returns the array of the
\* call before, whatever the order the tasks of either call ran in; a task
\* changes no sum but its own; no step changes g or N.
C9_Deterministic ==
    /\ []((Returned /\ ncalls >= 2 /\ perm = Identity(Len(nu))) => out = prev)
    /\ [][g' = g /\ N' = N /\ C9_OwnSumOnly]_vars

\* The second call was given the frequencies of the first unchanged, its
\* second task completed before its first, and it returned the same two
\* different positive values.
C9_Witness ==
    /\ Returned
    /\ ncalls = 2
    /\ perm = <<1, 2>>
    /\ nu[1] # nu[2]
    /\ order = <<2, 1>>
    /\ Gt(out[1], Zero) /\ Gt(out[2], Zero)
    /\ out[1] # out[2]
    /\ out = prev

\* N[k] * (quadrature result) * g[k]**q_k of segment k (from 0) at c.
C10_contrib(c, k) ==
    LET q == clamp(slope(k))
    IN  Mul(Mul(N[k + 1], romberg(c, q, Log(g[k + 1]), Log(g[k + 2])).res),
            Pow(g[k + 1], q))

C10_segments == IF Len(g) = 0 THEN 0 ELSE Len(g) - 1

\* The sum of the contributions of the integrated segments among the first n.
RECURSIVE C10_plain(_, _)
C10_plain(c, n) ==
    IF n = 0 THEN Zero
    ELSE IF integrated(n - 1)
         THEN Add(C10_plain(c, n - 1), C10_contrib(c, n - 1))
         ELSE C10_plain(c, n - 1)

\* The same sum with every partial sum below 1e-200 put back to 0.
RECURSIVE C10_running(_, _)
C10_running(c, n) ==
    IF n = 0 THEN Zero
    ELSE LET s == C10_running(c, n - 1)
             t == IF integrated(n - 1) THEN Add(s, C10_contrib(c, n - 1)) ELSE s
         IN  IF Lt(t, SumFloor) THEN Zero ELSE t

\* jmbConst * nuB * S for j_mb, ambConst * nuB * S / nu_i**2 for a_mb.
C10_norm(i, S) ==
    IF mode = "j_mb" THEN Mul(Mul(jmbConst, Mul(nuConst, B)), S)
    ELSE Div(Mul(Mul(ambConst, Mul(nuConst, B)), S), Mul(nu[i], nu[i]))

\* C10 (as amended): element i of the returned array is the normalization of
\* S_i, the sum over the segments in order of the contributions of the
\* integrated ones at c = nu_i / nuB, each partial sum below 1e-200 put back
\* to 0 before the next segment.
C10_NormalizedRunningSum ==
    Returned =>
        /\ Len(out) = Len(nu)
        /\ \A i \in 1..Len(out) :
              out[i] = C10_norm(i, C10_running(Div(nu[i], Mul(nuConst, B)),
                                               C10_segments))

\* a_mb returned 0 for a frequency whose contributions add up to a negative
\* number, on a strictly increasing grid with no point at g = 1.
C10_Witness ==
    /\ Returned
    /\ mode = "a_mb"
    /\ Len(g) >= 2 /\ Increasing(g) /\ g[1] # One
    /\ \E i \in 1..Len(out) :
          /\ out[i] = Zero
          /\ Lt(C10_plain(Div(nu[i], Mul(nuConst, B)), C10_segments), Zero)

\* C10 as stated: element i of the returned array is the normalization of
\* the plain sum of the contributions of the integrated segments.
C10_NormalizedPlainSum ==
    (Returned /\ Len(g) >= 2 /\ Increasing(g) /\ g[1] # One) =>
        \A i \in 1..Len(out) :
            out[i] = C10_norm(i, C10_plain(Div(nu[i], Mul(nuConst, B)),
                                           C10_segments))

\* C11: RMAfit of an argument x > 0 returns the constant 0.0 and evaluates no
\* fit when x g**3 < 0.5; when x g**3 >= 0.5 it evaluates exactly one of the
\* four forms, the one of the range x is in (x < c1 asymptotic-low,
\* c1 <= x <= c2 A, c2 < x < c3 B, x >= c3 asymptotic-high); x is in exactly
\* one of those ranges, and in exactly one of the ranges of FDB08fit (split at
\* 0.01, 1 and 10), which evaluates exactly the form of that range.
C11_FitRanges ==
    fitX # FitNaN =>
        LET inRMA == <<tLt(fitX, c1),
                       tGe(fitX, c1) /\ tLe(fitX, c2),
                       tGt(fitX, c2) /\ tLt(fitX, c3),
                       tGe(fitX, c3)>>
            inFDB == <<tLt(fitX, fdbLow),
                       tGe(fitX, fdbLow) /\ tLt(fitX, fdbMid),
                       tGe(fitX, fdbMid) /\ tLt(fitX, fdbHigh),
                       tGe(fitX, fdbHigh)>>
            forms == <<"asym_low", "A", "B", "asym_high">>
        IN  /\ Cardinality({r \in 1..4 : inRMA[r]}) = 1
            /\ Cardinality({r \in 1..4 : inFDB[r]}) = 1
            /\ fn = "RMAfit" =>
                 IF tLt(xg3(fitX, fitG), xg3Crit)
                 THEN fitHit = <<"0.0">> /\ fitOut = "0.0"
                 ELSE /\ Len(fitHit) = 1
                      /\ \A r \in 1..4 : inRMA[r] => fitOut = forms[r]
            /\ fn = "FDB08fit" =>
                 /\ Len(fitHit) = 1
                 /\ \A r \in 1..4 : inFDB[r] => fitOut = forms[r]

\* RMAfit was called with x = c2 exactly and x g**3 >= 0.5, and returned the
\* value of fit A.
C11_Witness ==
    /\ fn = "RMAfit"
    /\ fitX = c2
    /\ tGe(xg3(fitX, fitG), xg3Crit)
    /\ fitHit = <<"A">>
    /\ fitOut = "A"

\* C12 as stated: RMA of an argument x > 0 returns the asymptotic-low form on
\* the low side of the threshold on x g**3 and x SL07(x) on the other side.
C12_RMATwoForms ==
    (fn = "RMA" /\ fitX # FitNaN) =>
        /\ fitOut \in {"asym_low", "xSL07"}
        /\ tGt(xg3(fitX, fitG), xg3Crit) => fitOut = "xSL07"
        /\ tLe(xg3(fitX, fitG), xg3Crit) => fitOut = "asym_low"


\* C13: for a strictly increasing axis of at least two entries and a point
\* between its first and last entry, spectrum.pwl_interp and
\* LightCurves.pwl_interp end the index adjustment with 0 <= pos and
\* pos + 1 <= len - 1, read nothing outside the arrays, and interpolate on a
\* segment that brackets the point, axis[pos] <= point <= axis[pos + 1].
C13_SegmentBrackets ==
    (lcFn \in {"spectrum.pwl_interp", "LightCurves.pwl_interp"} /\ Len(nus) >= 2)
        => /\ lcPc = "returned"
           /\ 0 <= nu_pos
           /\ nu_pos + 1 <= Len(nus) - 1
           /\ 10 * nus[nu_pos + 1].e <= nu_in
           /\ nu_in <= 10 * nus[nu_pos + 2].e


\* x / a**n.
RECURSIVE C14_over(_, _, _)
C14_over(x, a, n) == IF n = 0 THEN x ELSE C14_over(Div(x, a), a, n - 1)

\* Two calls of LightCurves.pwl_interp in a row that both returned.
C14_repeated ==
    /\ lcFn = "LightCurves.pwl_interp" /\ lcPc = "returned"
    /\ lcPrev.fn = "LightCurves.pwl_interp" /\ lcPrev.pc = "returned"

\* The slope of the last call, and of the one before, is inside the clamp.
C14_unclamped ==
    Len(nus) > 1 =>
        LET q == pwlSlope(pyGet(flux, nu_pos), pyGet(flux, nu_pos + 1),
                          pyGet(nus, nu_pos), pyGet(nus, nu_pos + 1))
        IN  q.k = "fin" /\ sMin + 1 <= q.v /\ q.v <= sMax

=============================================================================
